---- MODULE Spec2Model ----
(***************************************************************************)
(* Project Kaizen: namespaces, scopes, the parent-edge graph between       *)
(* scopes, and the knowledge entries bound to scopes.                      *)
(*                                                                         *)
(* The state is the content of the relational store (tables namespaces,    *)
(* scopes, scope_parents, knowledge, config and knowledge_conflicts, and   *)
(* the serial id counters) and the handler calls in flight.  The           *)
(* actions are the handlers of the two servers of the repository:          *)
(*   server/      project_kaizen/database.py  (SQL functions in the store) *)
(*   mcp-server/  project_kaizen/core, services, repositories, tools       *)
(* The schema file (constraints, triggers, SQL functions) is not part of   *)
(* the sources; the definitions that stand for it are written from the     *)
(* specification and are named Db... / sql_... below.                      *)
(***************************************************************************)
EXTENDS Integers, Sequences, FiniteSets, TLC

VARIABLES namespaces, scopes, scope_parents, knowledge,
          nextNamespaceId, nextScopeId, nextKnowledgeId, last,
          config, knowledge_conflicts, calls

vars == <<namespaces, scopes, scope_parents, knowledge,
          nextNamespaceId, nextScopeId, nextKnowledgeId, last,
          config, knowledge_conflicts, calls>>

(***************************************************************************)
(* Bounds of the model.                                                    *)
(***************************************************************************)
MaxScopeId == 3
MaxNamespaceId == 2
MaxKnowledgeId == 2
MaxParents == 2
MaxContextLen == 3

\* The most rows of the table knowledge_conflicts.
MaxConflicts == 2

GLOBAL_NAMESPACE == "global"
DEFAULT_SCOPE_NAME == "default"

NamespaceNames == {"global", "n1"}
ScopeNames == {"default", "a", "b"}

\* A text is a sequence of tokens; a token is a pair <<kind, characters>>.
\* Word(w) is the plain word w; Marker(id) is the bracketed text that a
\* resolve call appends to the context of a suppressed entry.
Word(w) == <<"word", w>>
Marker(active_id) == <<"[SUPPRESSED-BY-", ToString(active_id)>>
ContentWords == {"w1", "w2"}
QueryLists == {<<"w1">>, <<"w2">>, <<"c1">>, <<"w1", "c1">>}
KnowledgeIds == 1..(MaxKnowledgeId + 1)
IdLists == {<<i>> : i \in KnowledgeIds} \cup
           {<<i, j>> : i \in KnowledgeIds, j \in KnowledgeIds}

\* A canonical scope name "namespace:scope" is the pair of its two parts.
NameOrder ==
    <<<<"global", "default">>, <<"global", "a">>, <<"global", "b">>,
      <<"n1", "default">>, <<"n1", "a">>>>
CanonicalNames == {NameOrder[i] : i \in DOMAIN NameOrder}

\* Lists of canonical names of length 0..MaxParents.
AnyLists == UNION {[1..n -> CanonicalNames] : n \in 0..MaxParents}

\* The SQL functions read a batch as a set of names, so the batches handed to
\* them are the lists without repetition in the order of NameOrder.
Ord(c) == CHOOSE i \in DOMAIN NameOrder : NameOrder[i] = c
ParentLists ==
    {s \in AnyLists : \A i \in DOMAIN s : \A j \in DOMAIN s :
                        i < j => Ord(s[i]) < Ord(s[j])}

\* An optional argument is the empty set (None) or the set of its one value.
None == {}
Some(x) == {x}
The(opt) == CHOOSE x \in opt : TRUE
Optional(V) == {None} \cup {Some(x) : x \in V}

(***************************************************************************)
(* Lookups (the SELECT ... JOIN queries of the handlers).                  *)
(***************************************************************************)
parse_canonical_scope_name(c) == [namespace_name |-> c[1], scope_name |-> c[2]]

NamespaceRows(name) == {n \in namespaces : n.name = name}

\* SELECT s.id FROM scopes s JOIN namespaces n ... WHERE n.name = $1 AND
\* s.name = $2, evaluated on the scopes table S (0 stands for "no row").
ScopeRowsIn(c, S) ==
    {s \in S : s.name = c[2] /\
        \E n \in namespaces : n.id = s.namespace_id /\ n.name = c[1]}

ScopeIdIn(c, S) ==
    IF ScopeRowsIn(c, S) = {} THEN 0 ELSE (CHOOSE s \in ScopeRowsIn(c, S) : TRUE).id

get_by_name(c) == ScopeIdIn(c, scopes)

ScopeRowIn(id, S) == CHOOSE s \in S : s.id = id

ScopeIds == {s.id : s \in scopes}

Parents(id, E) == {e[2] : e \in {x \in E : x[1] = id}}

RECURSIVE Reach(_, _, _)
Reach(frontier, seen, E) ==
    LET next == UNION {Parents(f, E) : f \in frontier} \ seen
    IN  IF next = {} THEN seen ELSE Reach(next, seen \cup next, E)

\* Every scope reachable from id by one or more parent edges.
Ancestors(id, E) == Reach({id}, {}, E)

Acyclic(E) == \A e \in E : e[1] \notin Ancestors(e[1], E)

(***************************************************************************)
(* The store: constraints and triggers on the tables.                      *)
(***************************************************************************)
\* No cycle detection at all.
DbWouldCycleNever(child, parent, E) == FALSE

\* Cycle detection: the edge child -> parent closes a cycle when the child
\* is the parent or appears in the parent's transitive parent closure.
DbWouldCycle(child, parent, E) ==
    child = parent \/ child \in Ancestors(parent, E)

\* The default scope of the namespace that owns scope id (0 if none).
DefaultScopeOf(id, S) ==
    LET s == ScopeRowIn(id, S)
        d == {x \in S : x.namespace_id = s.namespace_id /\
                         x.name = DEFAULT_SCOPE_NAME}
    IN  IF d = {} THEN 0 ELSE (CHOOSE x \in d : TRUE).id

\* EnsureDefaultParent: a non-default scope always keeps its namespace's
\* default scope as a parent; a default scope has no enforced parent.
EnsureDefaultParent(id, S, E) ==
    IF ScopeRowIn(id, S).name = DEFAULT_SCOPE_NAME \/ DefaultScopeOf(id, S) = 0
    THEN E
    ELSE E \cup {<<id, DefaultScopeOf(id, S)>>}

Range(f) == {f[i] : i \in DOMAIN f}

\* add_scope_parents with a plain INSERT: an edge that exists already is a
\* uniqueness conflict and the batch is rejected.
sql_add_scope_parents_strict(id, plist, S, E) ==
    LET pids == {ScopeIdIn(p, S) : p \in Range(plist)}
        newE == EnsureDefaultParent(id, S, E \cup {<<id, p>> : p \in pids})
    IN  IF 0 \in pids THEN [result |-> "ParentNotFound", edges |-> E]
        ELSE IF id \in pids THEN [result |-> "SelfReference", edges |-> E]
        ELSE IF \E p \in pids : <<id, p>> \in E
             THEN [result |-> "AlreadyExists", edges |-> E]
        ELSE IF \E p \in pids : DbWouldCycle(id, p, E)
             THEN [result |-> "CircularReference", edges |-> E]
        ELSE [result |-> "ok", edges |-> newE]

\* SQL function add_scope_parents(scope, parents) on scopes table S and edge
\* set E, for the scope with the given id: every listed parent must
\* resolve, none may be the scope itself, none may close a cycle; the batch
\* is validated as a unit and the edges are added together with the
\* namespace default.  Edges that already exist are left as they are.
sql_add_scope_parents(id, plist, S, E) ==
    LET pids == {ScopeIdIn(p, S) : p \in Range(plist)}
        newE == EnsureDefaultParent(id, S, E \cup {<<id, p>> : p \in pids})
    IN  IF 0 \in pids THEN [result |-> "ParentNotFound", edges |-> E]
        ELSE IF id \in pids THEN [result |-> "SelfReference", edges |-> E]
        ELSE IF \E p \in pids : DbWouldCycle(id, p, E)
             THEN [result |-> "CircularReference", edges |-> E]
        ELSE [result |-> "ok", edges |-> newE]

\* SQL function remove_scope_parents(scope, parents): every listed parent
\* must resolve and be a current parent edge of the scope, otherwise the
\* function returns NULL and removes nothing.
sql_remove_scope_parents(id, plist, S, E) ==
    LET pids == {ScopeIdIn(p, S) : p \in Range(plist)}
        newE == EnsureDefaultParent(id, S, E \ {<<id, p>> : p \in pids})
    IN  IF 0 \in pids \/ \E p \in pids : <<id, p>> \notin E
        THEN [result |-> "ParentNotFound", edges |-> E]
        ELSE [result |-> "ok", edges |-> newE]

\* UPDATE scopes SET name = new_name WHERE id = id, under the unique
\* constraint (namespace_id, name).
DbUpdateName(id, new_name, S) ==
    LET row == ScopeRowIn(id, S)
    IN  IF \E x \in S : x.id # id /\ x.namespace_id = row.namespace_id
                           /\ x.name = new_name
        THEN [result |-> "AlreadyExists", scopes |-> S]
        ELSE [result |-> "ok",
              scopes |-> (S \ {row}) \cup {[row EXCEPT !.name = new_name]}]

\* The same statement where no handler code guards the default scope: an
\* UPDATE of the name of a default scope is rejected by the store.
DbRenameScope(id, new_name, S) ==
    IF ScopeRowIn(id, S).name = DEFAULT_SCOPE_NAME
    THEN [result |-> "DefaultScopeProtected", scopes |-> S]
    ELSE DbUpdateName(id, new_name, S)

\* Trigger on DELETE FROM scopes: a default scope is not deleted.
DbDeleteRejected(id, S) == ScopeRowIn(id, S).name = DEFAULT_SCOPE_NAME

\* The cascade taking every edge of the children of a deleted scope with it.
DbCascadeChildren(ids, E) ==
    {e \in E : /\ e[1] \notin ids /\ e[2] \notin ids
               /\ ~\E f \in E : f[1] = e[1] /\ f[2] \in ids}

\* ON DELETE CASCADE from scopes to scope_parents and knowledge.
DbCascadeEdges(ids, E) == {e \in E : e[1] \notin ids /\ e[2] \notin ids}

\* The cascade from scopes to knowledge switched off.
DbKeepKnowledge(ids, K) == K

DbCascadeKnowledge(ids, K) == {k \in K : k.scope_id \notin ids}

\* Trigger on INSERT INTO namespaces: the default scope of the new namespace.
DbDefaultScopeRow(id, namespace_id, description) ==
    [id |-> id, namespace_id |-> namespace_id, name |-> DEFAULT_SCOPE_NAME,
     description |-> description]

Result(op, res) == [op |-> op, result |-> res]

\* The outcome of a search: the start scope, the queries and the ids of the
\* entries returned.
SearchResult(op, res, c, queries, task_size, ids) ==
    [op |-> op, result |-> res, scope |-> c, queries |-> queries,
     task_size |-> task_size, ids |-> ids]

\* The outcome of a resolve call, with the arguments it was called with.
\* missing is the set of ids the raised error names.
ResolveResult(res, active_id, suppressed_ids, missing) ==
    [op |-> "resolve_knowledge_conflicts", result |-> res,
     active_id |-> active_id, suppressed_ids |-> suppressed_ids,
     missing |-> missing]

\* The outcome of a delete_scope call: the scope it was called on, and the
\* knowledge_deleted count it returns.
DeleteResult(c, res, n) ==
    [op |-> "delete_scope", result |-> res, scope |-> c, knowledge_deleted |-> n]

(***************************************************************************)
(* The config table: one row per key, with a value and a default value.    *)
(* Values are text; value_type "integer" means the handler parses the      *)
(* text with int().  A value is modelled by what int() makes of it.        *)
(***************************************************************************)
SEARCH_MAX_RESULTS == "search.max_results"

ConfigKeys == {SEARCH_MAX_RESULTS}

IntText(n) == <<"int", n>>

OtherText(t) == <<"text", t>>

ConfigValues == {IntText(1), IntText(2), OtherText("x")}

DbMaxResultsDefault == 50

DbConfigDefault(key) == IntText(DbMaxResultsDefault)

(***************************************************************************)
(* Handler calls in flight.  The mcp-server serves each request in its own *)
(* task on a pooled connection, so the statements of two update_scope      *)
(* calls interleave.  calls[p] is the position of call p: the statement it *)
(* executes next, and after it has returned, its result.  overlapped       *)
(* records that a statement of another call ran while this one was in      *)
(* flight; no handler reads it.                                            *)
(***************************************************************************)
Procs == {1, 2}

Idle(result, overlapped) ==
    [pc |-> "idle", id |-> 0, plist |-> <<>>, i |-> 0, result |-> result,
     overlapped |-> overlapped]

\* Call p executes a statement: every other call in flight is overlapped.
Overlap(C, p) ==
    [q \in Procs |-> IF q # p /\ C[q].pc # "idle"
                     THEN [C[q] EXCEPT !.overlapped = TRUE] ELSE C[q]]

(***************************************************************************)
(* Initial state: the schema seeds the reserved namespace `global`, whose  *)
(* default scope is created with it, and the config rows at their default  *)
(* values.  No conflict resolution has been recorded.                      *)
(***************************************************************************)
Init ==
    /\ namespaces = {[id |-> 1, name |-> GLOBAL_NAMESPACE, description |-> "d1"]}
    /\ scopes = {[id |-> 1, namespace_id |-> 1, name |-> DEFAULT_SCOPE_NAME,
                  description |-> "d1"]}
    /\ scope_parents = {}
    /\ knowledge = {}
    /\ nextNamespaceId = 2
    /\ nextScopeId = 2
    /\ nextKnowledgeId = 1
    /\ last = Result("init", "ok")
    /\ config = [key \in ConfigKeys |-> DbConfigDefault(key)]
    /\ knowledge_conflicts = <<>>
    /\ calls = [p \in Procs |-> Idle("none", FALSE)]

(***************************************************************************)
(* server: create_namespace.  One INSERT in a transaction; the store       *)
(* creates the namespace's default scope in the same statement.            *)
(***************************************************************************)
create_namespace(name, description) ==
    /\ IF NamespaceRows(name) # {}
       THEN /\ last' = Result("create_namespace", "AlreadyExists")
            /\ UNCHANGED <<namespaces, scopes, nextNamespaceId, nextScopeId>>
       ELSE /\ nextNamespaceId <= MaxNamespaceId
            /\ nextScopeId <= MaxScopeId
            /\ namespaces' = namespaces \cup
                 {[id |-> nextNamespaceId, name |-> name, description |-> description]}
            /\ scopes' = scopes \cup
                 {DbDefaultScopeRow(nextScopeId, nextNamespaceId, description)}
            /\ nextNamespaceId' = nextNamespaceId + 1
            /\ nextScopeId' = nextScopeId + 1
            /\ last' = Result("create_namespace", "ok")
    /\ UNCHANGED <<scope_parents, knowledge, nextKnowledgeId,
                   config, knowledge_conflicts, calls>>

(***************************************************************************)
(* server: create_scope.  INSERT of the scope and add_scope_parents in one *)
(* transaction: a failure of either rolls both back.                       *)
(***************************************************************************)
create_scope(c, description, parents) ==
    LET ns == NamespaceRows(c[1])
        row == [id |-> nextScopeId,
                namespace_id |-> (CHOOSE n \in ns : TRUE).id,
                name |-> c[2], description |-> description]
        r == sql_add_scope_parents(nextScopeId, parents, scopes \cup {row},
                                   scope_parents)
    IN  /\ IF ns = {}
           THEN /\ last' = Result("create_scope", "NamespaceNotFound")
                /\ UNCHANGED <<scopes, scope_parents, nextScopeId>>
           ELSE IF get_by_name(c) # 0
           THEN /\ last' = Result("create_scope", "AlreadyExists")
                /\ UNCHANGED <<scopes, scope_parents, nextScopeId>>
           ELSE /\ nextScopeId <= MaxScopeId
                /\ last' = Result("create_scope", r.result)
                /\ IF r.result = "ok"
                   THEN /\ scopes' = scopes \cup {row}
                        /\ scope_parents' = r.edges
                        /\ nextScopeId' = nextScopeId + 1
                   ELSE UNCHANGED <<scopes, scope_parents, nextScopeId>>
        /\ UNCHANGED <<namespaces, knowledge, nextNamespaceId, nextKnowledgeId,
                       config, knowledge_conflicts, calls>>

(***************************************************************************)
(* server: add_scope_parents / remove_scope_parents.  One call of the SQL  *)
(* function; a NULL result is reported as "not found".                     *)
(***************************************************************************)
\* One call of the SQL function per listed parent instead of one call for
\* the batch: the parents before the first rejected one stay added.
RECURSIVE sql_add_each(_, _, _, _, _)
sql_add_each(id, plist, i, S, E) ==
    IF i > Len(plist) THEN [result |-> "ok", edges |-> E]
    ELSE LET r == sql_add_scope_parents(id, <<plist[i]>>, S, E)
         IN  IF r.result # "ok" THEN r
             ELSE sql_add_each(id, plist, i + 1, S, r.edges)

add_scope_parents_each(c, parents) ==
    LET id == get_by_name(c)
        r == sql_add_each(id, parents, 1, scopes, scope_parents)
    IN  /\ Len(parents) >= 1
        /\ IF id = 0
           THEN /\ last' = Result("add_scope_parents", "ScopeNotFound")
                /\ UNCHANGED scope_parents
           ELSE /\ last' = Result("add_scope_parents", r.result)
                /\ scope_parents' = r.edges
        /\ UNCHANGED <<namespaces, scopes, knowledge, nextNamespaceId,
                       nextScopeId, nextKnowledgeId,
                       config, knowledge_conflicts, calls>>

\* What SELECT add_scope_parents($1, $2) and the handler around it make of
\* a call in the current state: the outcome and the edges afterwards.
add_scope_parents_call(c, parents) ==
    IF get_by_name(c) = 0
    THEN [result |-> "ScopeNotFound", edges |-> scope_parents]
    ELSE sql_add_scope_parents(get_by_name(c), parents, scopes, scope_parents)

add_scope_parents(c, parents) ==
    LET r == add_scope_parents_call(c, parents)
    IN  /\ Len(parents) >= 1
        /\ last' = Result("add_scope_parents", r.result)
        /\ scope_parents' = r.edges
        /\ UNCHANGED <<namespaces, scopes, knowledge, nextNamespaceId,
                       nextScopeId, nextKnowledgeId,
                       config, knowledge_conflicts, calls>>

\* The same for SELECT remove_scope_parents($1, $2): a NULL result is
\* reported as "not found" for a missing scope and as "not parents of this
\* scope" otherwise.
\* The EXISTS query answering FALSE for every name.
scope_exists_never(c) == FALSE

\* SELECT EXISTS(SELECT 1 FROM scopes s JOIN namespaces n ...
\*               WHERE n.name || ':' || s.name = $1)
scope_exists(c) ==
    \E s \in scopes : \E n \in namespaces :
        n.id = s.namespace_id /\ <<n.name, s.name>> = c

remove_scope_parents_call(c, parents) ==
    LET remaining_parents ==
            IF get_by_name(c) = 0
            THEN [result |-> "ParentNotFound", edges |-> scope_parents]
            ELSE sql_remove_scope_parents(get_by_name(c), parents, scopes,
                                          scope_parents)
    IN  IF remaining_parents.result # "ok"
        THEN IF ~scope_exists(c)
             THEN [result |-> "ScopeNotFound", edges |-> remaining_parents.edges]
             ELSE [result |-> "ParentNotFound", edges |-> remaining_parents.edges]
        ELSE remaining_parents

remove_scope_parents(c, parents) ==
    LET r == remove_scope_parents_call(c, parents)
    IN  /\ Len(parents) >= 1
        /\ last' = Result("remove_scope_parents", r.result)
        /\ scope_parents' = r.edges
        /\ UNCHANGED <<namespaces, scopes, knowledge, nextNamespaceId,
                       nextScopeId, nextKnowledgeId,
                       config, knowledge_conflicts, calls>>

(***************************************************************************)
(* server: delete_scope.                                                   *)
(***************************************************************************)
\* The guard of delete_scope removed.
is_default_scope_off(scope_name) == FALSE

\* if scope_name == "default": raise ValueError("Cannot delete default scope")
is_default_scope(scope_name) == scope_name = "default"

\* SELECT COUNT(k.id) without the restriction to the scope.
knowledge_count_all(id, K) == Cardinality(K)

\* SELECT COUNT(k.id) ... LEFT JOIN knowledge k ON s.id = k.scope_id
knowledge_count(id, K) == Cardinality({k \in K : k.scope_id = id})

delete_scope(c) ==
    LET p == parse_canonical_scope_name(c)
        id == get_by_name(c)
    IN  /\ IF is_default_scope(p.scope_name)
           THEN /\ last' = DeleteResult(c, "DefaultScopeProtected", 0)
                /\ UNCHANGED <<scopes, scope_parents, knowledge>>
           ELSE IF id = 0
           THEN /\ last' = DeleteResult(c, "ScopeNotFound", 0)
                /\ UNCHANGED <<scopes, scope_parents, knowledge>>
           ELSE /\ scopes' = {s \in scopes : s.id # id}
                /\ scope_parents' = DbCascadeEdges({id}, scope_parents)
                /\ knowledge' = DbCascadeKnowledge({id}, knowledge)
                /\ last' = DeleteResult(c, "ok", knowledge_count(id, knowledge))
        /\ UNCHANGED <<namespaces, nextNamespaceId, nextScopeId, nextKnowledgeId,
                       config, knowledge_conflicts, calls>>

(***************************************************************************)
(* server: write_knowledge.  One INSERT ... SELECT, which inserts nothing  *)
(* when the scope does not resolve.                                        *)
(***************************************************************************)
\* A row of the knowledge table.  suppressed_by is 0 for an entry no resolve
\* call has suppressed.
KnowledgeRow(id, scope_id, content, context, task_size) ==
    [id |-> id, scope_id |-> scope_id, content |-> content, context |-> context,
     task_size |-> task_size, suppressed_by |-> 0]

write_knowledge(c, content, context, task_size) ==
    LET id == get_by_name(c)
    IN  /\ IF id = 0
           THEN /\ last' = Result("write_knowledge", "ScopeNotFound")
                /\ UNCHANGED <<knowledge, nextKnowledgeId>>
           ELSE /\ nextKnowledgeId <= MaxKnowledgeId
                /\ knowledge' = knowledge \cup
                     {KnowledgeRow(nextKnowledgeId, id, content, context, task_size)}
                /\ nextKnowledgeId' = nextKnowledgeId + 1
                /\ last' = Result("write_knowledge", "ok")
        /\ UNCHANGED <<namespaces, scopes, scope_parents, nextNamespaceId,
                       nextScopeId,
                       config, knowledge_conflicts, calls>>

(***************************************************************************)
(* server: rename_scope.                                                   *)
(***************************************************************************)
\* The guard of rename_scope removed.
is_default_rename_off(old_scope_name) == FALSE

\* if old_scope_name == "default": raise ValueError("Cannot rename default scope")
is_default_rename(old_scope_name) == old_scope_name = "default"

rename_scope(c, new_scope_name) ==
    LET p == parse_canonical_scope_name(c)
        id == get_by_name(c)
        r == DbUpdateName(id, new_scope_name, scopes)
    IN  /\ IF is_default_rename(p.scope_name)
           THEN /\ last' = Result("rename_scope", "DefaultScopeProtected")
                /\ UNCHANGED scopes
           ELSE IF id = 0
           THEN /\ last' = Result("rename_scope", "ScopeNotFound")
                /\ UNCHANGED scopes
           ELSE /\ last' = Result("rename_scope", r.result)
                /\ scopes' = r.scopes
        /\ UNCHANGED <<namespaces, scope_parents, knowledge, nextNamespaceId,
                       nextScopeId, nextKnowledgeId,
                       config, knowledge_conflicts, calls>>

(***************************************************************************)
(* server: resolve_knowledge_conflict.  One SELECT of the rows whose id is *)
(* among the arguments; when the number of rows differs from the number of *)
(* arguments the call raises, naming set(all_ids) - found_ids; otherwise   *)
(* one INSERT into knowledge_conflicts.                                    *)
(***************************************************************************)
resolve_knowledge_conflict(active_knowledge_id, suppressed_knowledge_ids) ==
    LET all_ids == <<active_knowledge_id>> \o suppressed_knowledge_ids
        existing_ids == {k.id : k \in {x \in knowledge : x.id \in Range(all_ids)}}
        missing_ids == Range(all_ids) \ existing_ids
        call == [op |-> "resolve_knowledge_conflict",
                 active_id |-> active_knowledge_id,
                 suppressed_ids |-> suppressed_knowledge_ids]
    IN  /\ IF Cardinality(existing_ids) # Len(all_ids)
           THEN /\ last' = call @@
                             [result |-> "KnowledgeNotFound", missing |-> missing_ids]
                /\ UNCHANGED knowledge_conflicts
           ELSE /\ Len(knowledge_conflicts) < MaxConflicts
                /\ knowledge_conflicts' = Append(knowledge_conflicts,
                       [active_knowledge_id |-> active_knowledge_id,
                        suppressed_knowledge_ids |-> suppressed_knowledge_ids])
                /\ last' = call @@ [result |-> "ok", missing |-> {}]
        /\ UNCHANGED <<namespaces, scopes, scope_parents, knowledge,
                       nextNamespaceId, nextScopeId, nextKnowledgeId,
                       config, calls>>

(***************************************************************************)
(* server: update_scope_description.  The scope global:default is refused  *)
(* before any statement; otherwise one UPDATE of the description, and a    *)
(* scope that is not found is reported when the UPDATE returns no row.     *)
(***************************************************************************)
DescriptionResult(res, c, new_description) ==
    [op |-> "update_scope_description", result |-> res, scope |-> c,
     description |-> new_description]

\* No scope is refused.
is_global_default_off(c) == FALSE

\* canonical_scope_name == "global:default"
is_global_default(c) == c = <<GLOBAL_NAMESPACE, DEFAULT_SCOPE_NAME>>

update_scope_description(c, new_description) ==
    LET id == get_by_name(c)
    IN  /\ IF is_global_default(c)
           THEN /\ last' = DescriptionResult("Reserved", c, new_description)
                /\ UNCHANGED scopes
           ELSE IF id = 0
           THEN /\ last' = DescriptionResult("ScopeNotFound", c, new_description)
                /\ UNCHANGED scopes
           ELSE /\ scopes' = (scopes \ {ScopeRowIn(id, scopes)}) \cup
                        {[ScopeRowIn(id, scopes) EXCEPT !.description = new_description]}
                /\ last' = DescriptionResult("ok", c, new_description)
        /\ UNCHANGED <<namespaces, scope_parents, knowledge,
                       nextNamespaceId, nextScopeId, nextKnowledgeId,
                       config, knowledge_conflicts, calls>>

(***************************************************************************)
(* mcp-server.  Every statement of a handler runs on a pooled connection   *)
(* outside any transaction, so each statement commits on its own and a     *)
(* handler that raises leaves the statements before the raise in place.    *)
(***************************************************************************)
\* INSERT INTO scope_parents for the elements i..Len(plist) of plist, in list
\* order, stopping at the first element that raises.  doNothing is the ON
\* CONFLICT DO NOTHING clause of the statement.
RECURSIVE add_parent_loop(_, _, _, _, _, _)
add_parent_loop(child, plist, i, S, E, doNothing) ==
    IF i > Len(plist) THEN [result |-> "ok", edges |-> E]
    ELSE LET pid == ScopeIdIn(plist[i], S)
         IN  IF pid = 0 THEN [result |-> "ParentNotFound", edges |-> E]
             ELSE IF <<child, pid>> \in E
                  THEN IF doNothing
                       THEN add_parent_loop(child, plist, i + 1, S, E, doNothing)
                       ELSE [result |-> "AlreadyExists", edges |-> E]
             ELSE IF DbWouldCycle(child, pid, E)
                  THEN [result |-> "CircularReference", edges |-> E]
             ELSE add_parent_loop(child, plist, i + 1, S,
                                  E \cup {<<child, pid>>}, doNothing)

\* The parent list taken as given.
without_default_parent(namespace, parents) == parents

\* "Auto-add default parent if not specified".
with_default_parent(namespace, parents) ==
    LET default_parent == <<namespace, DEFAULT_SCOPE_NAME>>
    IN  IF default_parent \in Range(parents) THEN parents
        ELSE Append(parents, default_parent)

update_description(id, description, S) ==
    LET row == ScopeRowIn(id, S)
    IN  (S \ {row}) \cup {[row EXCEPT !.description = description]}

clear_parents(id, E) == {e \in E : e[1] # id}

(***************************************************************************)
(* mcp-server: update_scope (core/scope_ops.py, services/scope.py).        *)
(***************************************************************************)
update_scope(c, new_scope, description, parents) ==
    LET id == get_by_name(c)
        rn == IF new_scope = None THEN [result |-> "ok", scopes |-> scopes]
              ELSE DbRenameScope(id, The(new_scope)[2], scopes)
        S2 == IF description = None THEN rn.scopes
              ELSE update_description(id, The(description), rn.scopes)
        rp == IF parents = None THEN [result |-> "ok", edges |-> scope_parents]
              ELSE add_parent_loop(id, with_default_parent(c[1], The(parents)), 1,
                                   S2, clear_parents(id, scope_parents), FALSE)
    IN  /\ IF id = 0
           THEN /\ last' = Result("update_scope", "ScopeNotFound")
                /\ UNCHANGED <<scopes, scope_parents>>
           ELSE IF new_scope # None /\ The(new_scope)[1] # c[1]
           THEN /\ last' = Result("update_scope", "CrossNamespaceMove")
                /\ UNCHANGED <<scopes, scope_parents>>
           ELSE IF rn.result # "ok"
           THEN /\ last' = Result("update_scope", rn.result)
                /\ UNCHANGED <<scopes, scope_parents>>
           ELSE /\ scopes' = S2
                /\ scope_parents' = rp.edges
                /\ last' = Result("update_scope", rp.result)
        /\ UNCHANGED <<namespaces, knowledge, nextNamespaceId, nextScopeId,
                       nextKnowledgeId,
                       config, knowledge_conflicts, calls>>

(***************************************************************************)
(* mcp-server: update_scope with a parent list, one statement at a time.   *)
(* The statements are the SELECT of the scope, the DELETE of its edges,    *)
(* and for each parent the SELECT of the parent with the INSERT of the     *)
(* edge.  The call returns after the last INSERT or at the first raise.    *)
(***************************************************************************)
update_scope_begin(p, c, parents) ==
    LET id == get_by_name(c)
    IN  /\ calls[p].pc = "idle"
        /\ IF id = 0
           THEN /\ calls' = Overlap([calls EXCEPT ![p] = Idle("ScopeNotFound", FALSE)], p)
                /\ last' = Result("update_scope", "ScopeNotFound")
           ELSE /\ calls' = Overlap([calls EXCEPT ![p] =
                                [pc |-> "clear", id |-> id,
                                 plist |-> with_default_parent(c[1], parents),
                                 i |-> 1, result |-> "none",
                                 overlapped |-> FALSE]], p)
                /\ UNCHANGED last
        /\ UNCHANGED <<namespaces, scopes, scope_parents, knowledge,
                       nextNamespaceId, nextScopeId, nextKnowledgeId,
                       config, knowledge_conflicts>>

update_scope_clear(p) ==
    /\ calls[p].pc = "clear"
    /\ scope_parents' = clear_parents(calls[p].id, scope_parents)
    /\ calls' = Overlap([calls EXCEPT ![p].pc = "insert"], p)
    /\ UNCHANGED <<namespaces, scopes, knowledge, last,
                   nextNamespaceId, nextScopeId, nextKnowledgeId,
                   config, knowledge_conflicts>>

update_scope_insert(p) ==
    LET call == calls[p]
        r == add_parent_loop(call.id, <<call.plist[call.i]>>, 1, scopes,
                             scope_parents, FALSE)
    IN  /\ call.pc = "insert"
        /\ scope_parents' = r.edges
        /\ IF r.result = "ok" /\ call.i < Len(call.plist)
           THEN /\ calls' = Overlap([calls EXCEPT ![p].i = call.i + 1], p)
                /\ UNCHANGED last
           ELSE /\ calls' = Overlap([calls EXCEPT ![p] =
                                       Idle(r.result, call.overlapped)], p)
                /\ last' = Result("update_scope", r.result)
        /\ UNCHANGED <<namespaces, scopes, knowledge,
                       nextNamespaceId, nextScopeId, nextKnowledgeId,
                       config, knowledge_conflicts>>

(***************************************************************************)
(* mcp-server: create_namespace (services/namespace.py and                 *)
(* repositories/namespace.py).  The reserved name is refused; otherwise    *)
(* one INSERT of the namespace, with which the store creates the default   *)
(* scope.                                                                  *)
(***************************************************************************)
mcp_create_namespace(name, description) ==
    /\ IF name = GLOBAL_NAMESPACE
       THEN /\ last' = Result("create_namespace", "Reserved")
            /\ UNCHANGED <<namespaces, scopes, nextNamespaceId, nextScopeId>>
       ELSE IF NamespaceRows(name) # {}
       THEN /\ last' = Result("create_namespace", "AlreadyExists")
            /\ UNCHANGED <<namespaces, scopes, nextNamespaceId, nextScopeId>>
       ELSE /\ nextNamespaceId <= MaxNamespaceId
            /\ nextScopeId <= MaxScopeId
            /\ namespaces' = namespaces \cup
                 {[id |-> nextNamespaceId, name |-> name, description |-> description]}
            /\ scopes' = scopes \cup
                 {DbDefaultScopeRow(nextScopeId, nextNamespaceId, description)}
            /\ nextNamespaceId' = nextNamespaceId + 1
            /\ nextScopeId' = nextScopeId + 1
            /\ last' = Result("create_namespace", "ok")
    /\ UNCHANGED <<scope_parents, knowledge, nextKnowledgeId,
                   config, knowledge_conflicts, calls>>

(***************************************************************************)
(* mcp-server: create_scope (services/scope.py).  Every parent is looked   *)
(* up before the scope row is inserted.                                    *)
(***************************************************************************)
mcp_create_scope(c, description, parents) ==
    LET ns == NamespaceRows(c[1])
        all_parents == with_default_parent(c[1], parents)
        row == [id |-> nextScopeId,
                namespace_id |-> (CHOOSE n \in ns : TRUE).id,
                name |-> c[2], description |-> description]
        r == add_parent_loop(nextScopeId, all_parents, 1, scopes \cup {row},
                             scope_parents, TRUE)
    IN  /\ IF ns = {}
           THEN /\ last' = Result("create_scope", "NamespaceNotFound")
                /\ UNCHANGED <<scopes, scope_parents, nextScopeId>>
           ELSE IF \E q \in Range(all_parents) : get_by_name(q) = 0
           THEN /\ last' = Result("create_scope", "ParentNotFound")
                /\ UNCHANGED <<scopes, scope_parents, nextScopeId>>
           ELSE IF get_by_name(c) # 0
           THEN /\ last' = Result("create_scope", "AlreadyExists")
                /\ UNCHANGED <<scopes, scope_parents, nextScopeId>>
           ELSE /\ nextScopeId <= MaxScopeId
                /\ scopes' = scopes \cup {row}
                /\ scope_parents' = r.edges
                /\ nextScopeId' = nextScopeId + 1
                /\ last' = Result("create_scope", r.result)
        /\ UNCHANGED <<namespaces, knowledge, nextNamespaceId, nextKnowledgeId,
                       config, knowledge_conflicts, calls>>

(***************************************************************************)
(* mcp-server: create_scope (core/scope_ops.py).  The scope row is         *)
(* inserted first; each parent is then looked up and its edge inserted,    *)
(* and the first parent that is not found raises.                          *)
(***************************************************************************)
core_create_scope(c, description, parents) ==
    LET ns == NamespaceRows(c[1])
        all_parents == with_default_parent(c[1], parents)
        row == [id |-> nextScopeId,
                namespace_id |-> (CHOOSE n \in ns : TRUE).id,
                name |-> c[2], description |-> description]
        r == add_parent_loop(nextScopeId, all_parents, 1, scopes \cup {row},
                             scope_parents, TRUE)
    IN  /\ IF ns = {}
           THEN /\ last' = Result("create_scope", "NamespaceNotFound")
                /\ UNCHANGED <<scopes, scope_parents, nextScopeId>>
           ELSE IF get_by_name(c) # 0
           THEN /\ last' = Result("create_scope", "AlreadyExists")
                /\ UNCHANGED <<scopes, scope_parents, nextScopeId>>
           ELSE /\ nextScopeId <= MaxScopeId
                /\ scopes' = scopes \cup {row}
                /\ scope_parents' = r.edges
                /\ nextScopeId' = nextScopeId + 1
                /\ last' = Result("create_scope", r.result)
        /\ UNCHANGED <<namespaces, knowledge, nextNamespaceId, nextKnowledgeId,
                       config, knowledge_conflicts, calls>>

(***************************************************************************)
(* mcp-server: delete_scope (core/scope_ops.py, services/scope.py).  The   *)
(* handler looks the scope up and issues the DELETE; it has no guard of    *)
(* its own for a default scope.                                            *)
(***************************************************************************)
mcp_delete_scope(c) ==
    LET id == get_by_name(c)
    IN  /\ IF id = 0
           THEN /\ last' = DeleteResult(c, "ScopeNotFound", 0)
                /\ UNCHANGED <<scopes, scope_parents, knowledge>>
           ELSE IF DbDeleteRejected(id, scopes)
           THEN /\ last' = DeleteResult(c, "DefaultScopeProtected", 0)
                /\ UNCHANGED <<scopes, scope_parents, knowledge>>
           ELSE /\ scopes' = {s \in scopes : s.id # id}
                /\ scope_parents' = DbCascadeEdges({id}, scope_parents)
                /\ knowledge' = DbCascadeKnowledge({id}, knowledge)
                /\ last' = DeleteResult(c, "ok",
                               Cardinality({k \in knowledge : k.scope_id = id}))
        /\ UNCHANGED <<namespaces, nextNamespaceId, nextScopeId, nextKnowledgeId,
                       config, knowledge_conflicts, calls>>

Next ==
    \/ \E name \in NamespaceNames : create_namespace(name, "d1")
    \/ \E c \in CanonicalNames, ps \in ParentLists : create_scope(c, "d1", ps)
    \/ \E c \in CanonicalNames, ps \in ParentLists : add_scope_parents(c, ps)
    \/ \E c \in CanonicalNames, ps \in ParentLists : remove_scope_parents(c, ps)
    \/ \E c \in CanonicalNames : delete_scope(c)

Spec == Init /\ [][Next]_vars

(***************************************************************************)
(* Namespaces: rename, description update and delete of both servers.      *)
(***************************************************************************)
\* The names a namespace can be renamed to.
NewNamespaceNames == NamespaceNames \cup {"n2"}

\* Unique constraint on namespaces(name).
DbNamespaceNameTaken(name, new_name) ==
    new_name # name /\ NamespaceRows(new_name) # {}

\* DELETE FROM namespaces is refused by the store for the namespace global.
DbNamespaceDeleteRejected(name) == name = GLOBAL_NAMESPACE

\* The scopes owned by the namespaces named name.
OwnedScopes(name) ==
    {s \in scopes : \E n \in NamespaceRows(name) : s.namespace_id = n.id}

\* The outcome of a namespace call: the namespace it addressed, the new name
\* of a rename (None otherwise) and the two counts a delete reports.
NamespaceResult(op, res, name, new_name, n_scopes, n_knowledge) ==
    [op |-> op, result |-> res, namespace |-> name, new_namespace |-> new_name,
     deleted_scopes |-> n_scopes, deleted_knowledge |-> n_knowledge]

\* UPDATE namespaces SET name = new_name WHERE name = name.
RenameRow(name, new_name) ==
    {IF n.name = name THEN [n EXCEPT !.name = new_name] ELSE n : n \in namespaces}

\* UPDATE namespaces SET description = d WHERE name = name.
DescribeRow(N, name, d) ==
    {IF n.name = name THEN [n EXCEPT !.description = d] ELSE n : n \in N}

\* The guard of rename_namespace removed.
is_global_off(name) == FALSE

\* if old_namespace_name == "global": raise ValueError
is_global(name) == name = "global"

\* server: rename_namespace.
rename_namespace(old_namespace_name, new_namespace_name) ==
    /\ IF is_global(old_namespace_name)
       THEN /\ last' = NamespaceResult("rename_namespace", "Reserved",
                            old_namespace_name, Some(new_namespace_name), 0, 0)
            /\ UNCHANGED namespaces
       ELSE IF NamespaceRows(old_namespace_name) = {}
       THEN /\ last' = NamespaceResult("rename_namespace", "NamespaceNotFound",
                            old_namespace_name, Some(new_namespace_name), 0, 0)
            /\ UNCHANGED namespaces
       ELSE IF DbNamespaceNameTaken(old_namespace_name, new_namespace_name)
       THEN /\ last' = NamespaceResult("rename_namespace", "AlreadyExists",
                            old_namespace_name, Some(new_namespace_name), 0, 0)
            /\ UNCHANGED namespaces
       ELSE /\ namespaces' = RenameRow(old_namespace_name, new_namespace_name)
            /\ last' = NamespaceResult("rename_namespace", "ok",
                            old_namespace_name, Some(new_namespace_name), 0, 0)
    /\ UNCHANGED <<scopes, scope_parents, knowledge, nextNamespaceId,
                   nextScopeId, nextKnowledgeId,
                   config, knowledge_conflicts, calls>>

\* server: update_namespace_description.
update_namespace_description(namespace_name, new_description) ==
    /\ IF namespace_name = "global"
       THEN /\ last' = NamespaceResult("update_namespace_description",
                            "Reserved", namespace_name, None, 0, 0)
            /\ UNCHANGED namespaces
       ELSE IF NamespaceRows(namespace_name) = {}
       THEN /\ last' = NamespaceResult("update_namespace_description",
                            "NamespaceNotFound", namespace_name, None, 0, 0)
            /\ UNCHANGED namespaces
       ELSE /\ namespaces' = DescribeRow(namespaces, namespace_name, new_description)
            /\ last' = NamespaceResult("update_namespace_description", "ok",
                            namespace_name, None, 0, 0)
    /\ UNCHANGED <<scopes, scope_parents, knowledge, nextNamespaceId,
                   nextScopeId, nextKnowledgeId,
                   config, knowledge_conflicts, calls>>

\* The dictionary database.delete_namespace returns.
delete_namespace_stats(name) ==
    [deleted_scopes |-> Cardinality(OwnedScopes(name)),
     deleted_knowledge |->
        Cardinality({k \in knowledge :
                        k.scope_id \in {s.id : s \in OwnedScopes(name)}})]

\* dict.get(key, default)
dict_get(d, key, default) == IF key \in DOMAIN d THEN d[key] ELSE default

\* DELETE FROM namespaces WHERE name = name, with its cascade to the scopes
\* of the namespace, their parent edges and their knowledge.
DbDeleteNamespace(name) ==
    LET ids == {s.id : s \in OwnedScopes(name)}
    IN  [namespaces |-> {n \in namespaces : n.name # name},
         scopes |-> scopes \ OwnedScopes(name),
         scope_parents |-> DbCascadeEdges(ids, scope_parents),
         knowledge |-> DbCascadeKnowledge(ids, knowledge)]

\* server: delete_namespace (database.py) as returned by the tool
\* delete_namespace (server.py).
delete_namespace(namespace_name) ==
    LET result == delete_namespace_stats(namespace_name)
        db == DbDeleteNamespace(namespace_name)
    IN  /\ IF NamespaceRows(namespace_name) = {}
           THEN /\ last' = NamespaceResult("delete_namespace", "NamespaceNotFound",
                                namespace_name, None, 0, 0)
                /\ UNCHANGED <<namespaces, scopes, scope_parents, knowledge>>
           ELSE IF DbNamespaceDeleteRejected(namespace_name)
           THEN /\ last' = NamespaceResult("delete_namespace", "Reserved",
                                namespace_name, None, 0, 0)
                /\ UNCHANGED <<namespaces, scopes, scope_parents, knowledge>>
           ELSE /\ namespaces' = db.namespaces
                /\ scopes' = db.scopes
                /\ scope_parents' = db.scope_parents
                /\ knowledge' = db.knowledge
                /\ last' = NamespaceResult("delete_namespace", "ok",
                                namespace_name, None,
                                dict_get(result, "scopes_count", 0),
                                dict_get(result, "knowledge_count", 0))
        /\ UNCHANGED <<nextNamespaceId, nextScopeId, nextKnowledgeId,
                       config, knowledge_conflicts, calls>>

\* mcp-server: update_namespace (services/namespace.py and
\* repositories/namespace.py); new_name and description are optional.
mcp_update_namespace(name, new_name, description) ==
    LET target == IF new_name = None THEN name ELSE The(new_name)
        renamed == IF new_name = None THEN namespaces
                   ELSE RenameRow(name, The(new_name))
    IN  /\ IF name = GLOBAL_NAMESPACE
           THEN /\ last' = NamespaceResult("update_namespace", "Reserved",
                                name, new_name, 0, 0)
                /\ UNCHANGED namespaces
           ELSE IF new_name # None /\ The(new_name) = GLOBAL_NAMESPACE
           THEN /\ last' = NamespaceResult("update_namespace", "Reserved",
                                name, new_name, 0, 0)
                /\ UNCHANGED namespaces
           ELSE IF NamespaceRows(name) = {}
           THEN /\ last' = NamespaceResult("update_namespace", "NamespaceNotFound",
                                name, new_name, 0, 0)
                /\ UNCHANGED namespaces
           ELSE IF DbNamespaceNameTaken(name, target)
           THEN /\ last' = NamespaceResult("update_namespace", "AlreadyExists",
                                name, new_name, 0, 0)
                /\ UNCHANGED namespaces
           ELSE /\ namespaces' = IF description = None THEN renamed
                                 ELSE DescribeRow(renamed, target, The(description))
                /\ last' = NamespaceResult("update_namespace", "ok",
                                name, new_name, 0, 0)
        /\ UNCHANGED <<scopes, scope_parents, knowledge, nextNamespaceId,
                       nextScopeId, nextKnowledgeId,
                       config, knowledge_conflicts, calls>>

\* mcp-server: delete_namespace (services/namespace.py and
\* repositories/namespace.py): one statement counts and deletes.
mcp_delete_namespace(name) ==
    LET counts == delete_namespace_stats(name)
        db == DbDeleteNamespace(name)
    IN  /\ IF name = GLOBAL_NAMESPACE
           THEN /\ last' = NamespaceResult("delete_namespace", "Reserved",
                                name, None, 0, 0)
                /\ UNCHANGED <<namespaces, scopes, scope_parents, knowledge>>
           ELSE IF NamespaceRows(name) = {}
           THEN /\ last' = NamespaceResult("delete_namespace", "NamespaceNotFound",
                                name, None, 0, 0)
                /\ UNCHANGED <<namespaces, scopes, scope_parents, knowledge>>
           ELSE /\ namespaces' = db.namespaces
                /\ scopes' = db.scopes
                /\ scope_parents' = db.scope_parents
                /\ knowledge' = db.knowledge
                /\ last' = NamespaceResult("delete_namespace", "ok", name, None,
                                counts.deleted_scopes, counts.deleted_knowledge)
        /\ UNCHANGED <<nextNamespaceId, nextScopeId, nextKnowledgeId,
                       config, knowledge_conflicts, calls>>

\* Scopes are created with their default parent only; every other edge is
\* added and removed by add_scope_parents and remove_scope_parents.
NextParents ==
    \/ \E name \in NamespaceNames : create_namespace(name, "d1")
    \/ \E c \in CanonicalNames : create_scope(c, "d1", <<>>)
    \/ \E c \in CanonicalNames, ps \in ParentLists : add_scope_parents(c, ps)
    \/ \E c \in CanonicalNames, ps \in ParentLists : remove_scope_parents(c, ps)

SpecParents == Init /\ [][NextParents]_vars

\* Scopes are created by either server and renamed through rename_scope and
\* through update_scope, with and without a new description.
NextRename ==
    \/ \E name \in NamespaceNames : mcp_create_namespace(name, "d1")
    \/ \E c \in CanonicalNames : create_scope(c, "d1", <<>>)
    \/ \E c \in CanonicalNames, n \in ScopeNames : rename_scope(c, n)
    \/ \E c \in CanonicalNames, n \in CanonicalNames, d \in Optional({"d2"}) :
          update_scope(c, Some(n), d, None)

SpecRename == Init /\ [][NextRename]_vars

\* Namespaces are created, filled, renamed, described and deleted.
NextNamespace ==
    \/ \E name \in NamespaceNames : create_namespace(name, "d1")
    \/ \E ns \in NamespaceNames, ps \in {<<>>, <<<<"n1", DEFAULT_SCOPE_NAME>>>>} :
          create_scope(<<ns, "a">>, "d1", ps)
    \/ \E c \in CanonicalNames : write_knowledge(c, "w1", <<Word("c1")>>, None)
    \/ \E old \in NewNamespaceNames, new \in NewNamespaceNames :
          rename_namespace(old, new)
    \/ \E name \in NewNamespaceNames : update_namespace_description(name, "d2")
    \/ \E name \in NewNamespaceNames : delete_namespace(name)
    \/ \E name \in NewNamespaceNames, new \in Optional(NewNamespaceNames),
          d \in Optional({"d2"}) : mcp_update_namespace(name, new, d)
    \/ \E name \in NewNamespaceNames : mcp_delete_namespace(name)

SpecNamespace == Init /\ [][NextNamespace]_vars

\* The handlers that create, rename and delete namespaces and scopes.
NextNames ==
    \/ \E name \in NamespaceNames : create_namespace(name, "d1")
    \/ \E c \in CanonicalNames, ps \in ParentLists : create_scope(c, "d1", ps)
    \/ \E c \in CanonicalNames, n \in ScopeNames : rename_scope(c, n)
    \/ \E c \in CanonicalNames : delete_scope(c)
    \/ \E name \in NamespaceNames : mcp_create_namespace(name, "d1")

SpecNames == Init /\ [][NextNames]_vars

(***************************************************************************)
(* mcp-server: knowledge entries (core/knowledge_ops.py).                  *)
(***************************************************************************)
KnowledgeRowsOf(id) == {k \in knowledge : k.id = id}

create_knowledge_entry(c, content, context) ==
    LET scope_id == get_by_name(c)
    IN  /\ IF scope_id = 0
           THEN /\ last' = Result("create_knowledge_entry", "ScopeNotFound")
                /\ UNCHANGED <<knowledge, nextKnowledgeId>>
           ELSE /\ nextKnowledgeId <= MaxKnowledgeId
                /\ knowledge' = knowledge \cup
                     {KnowledgeRow(nextKnowledgeId, scope_id, content, context, None)}
                /\ nextKnowledgeId' = nextKnowledgeId + 1
                /\ last' = Result("create_knowledge_entry", "ok")
        /\ UNCHANGED <<namespaces, scopes, scope_parents, nextNamespaceId,
                       nextScopeId,
                       config, knowledge_conflicts, calls>>

\* UPDATE knowledge SET <the supplied columns> WHERE id = entry_id.
update_knowledge_entry(entry_id, content, context, scope) ==
    LET cur == KnowledgeRowsOf(entry_id)
        k == CHOOSE x \in cur : TRUE
        final_scope_id == IF scope = None THEN k.scope_id
                          ELSE get_by_name(The(scope))
        k2 == [k EXCEPT !.content = IF content = None THEN @ ELSE The(content),
                        !.context = IF context = None THEN @ ELSE The(context),
                        !.scope_id = final_scope_id]
    IN  /\ IF cur = {}
           THEN /\ last' = Result("update_knowledge_entry", "KnowledgeNotFound")
                /\ UNCHANGED knowledge
           ELSE IF final_scope_id = 0
           THEN /\ last' = Result("update_knowledge_entry", "ScopeNotFound")
                /\ UNCHANGED knowledge
           ELSE /\ knowledge' = (knowledge \ {k}) \cup {k2}
                /\ last' = Result("update_knowledge_entry", "ok")
        /\ UNCHANGED <<namespaces, scopes, scope_parents, nextNamespaceId,
                       nextScopeId, nextKnowledgeId,
                       config, knowledge_conflicts, calls>>

\* UPDATE knowledge SET context = context || ' [SUPPRESSED-BY-' || $1 || ']'
\* WHERE id = $2, once per element of suppressed_ids, in list order.
RECURSIVE mark_suppressed(_, _, _, _)
mark_suppressed(K, suppressed_ids, i, active_id) ==
    IF i > Len(suppressed_ids) THEN K
    ELSE LET k == CHOOSE x \in K : x.id = suppressed_ids[i]
             k2 == [k EXCEPT !.context = Append(@, Marker(active_id)),
                             !.suppressed_by = active_id]
         IN  mark_suppressed((K \ {k}) \cup {k2}, suppressed_ids, i + 1, active_id)

\* The id named by the error of resolve_knowledge_conflicts: the active id
\* when it does not exist, otherwise the first suppressed id, in list order,
\* that does not exist.
first_missing(active_id, suppressed_ids) ==
    IF KnowledgeRowsOf(active_id) = {} THEN {active_id}
    ELSE LET miss == {i \in DOMAIN suppressed_ids :
                         KnowledgeRowsOf(suppressed_ids[i]) = {}}
         IN  IF miss = {} THEN {}
             ELSE {suppressed_ids[CHOOSE i \in miss : \A j \in miss : i <= j]}

resolve_knowledge_conflicts(active_id, suppressed_ids) ==
    LET K2 == mark_suppressed(knowledge, suppressed_ids, 1, active_id)
        missing == first_missing(active_id, suppressed_ids)
    IN  /\ IF missing # {}
           THEN /\ last' = ResolveResult("KnowledgeNotFound", active_id,
                                          suppressed_ids, missing)
                /\ UNCHANGED knowledge
           ELSE /\ \A k \in K2 : Len(k.context) <= MaxContextLen
                /\ knowledge' = K2
                /\ last' = ResolveResult("ok", active_id, suppressed_ids, {})
        /\ UNCHANGED <<namespaces, scopes, scope_parents, nextNamespaceId,
                       nextScopeId, nextKnowledgeId,
                       config, knowledge_conflicts, calls>>

(***************************************************************************)
(* mcp-server: get_task_context_knowledge.                                 *)
(***************************************************************************)
SEARCH_LIMIT == 50

\* The rows <<id, level>> of the recursive query scope_ancestors: the start
\* scope at level 0 and, for every row, its parents one level up (UNION
\* ALL); SELECT DISTINCT id, scope_name, level keeps one row per pair.
RECURSIVE scope_ancestors(_, _, _)
scope_ancestors(ids, level, E) ==
    IF ids = {} \/ level > Cardinality(scopes) THEN {}
    ELSE {<<x, level>> : x \in ids} \cup
         scope_ancestors(UNION {Parents(x, E) : x \in ids}, level + 1, E)

hierarchy_result(c) ==
    IF get_by_name(c) = 0 THEN {}
    ELSE scope_ancestors({get_by_name(c)}, 0, scope_parents)

\* to_tsvector('english', content || ' ' || context): the words of both.
to_tsvector(k) ==
    {k.content} \cup {k.context[i][2] : i \in {j \in DOMAIN k.context :
                                                  k.context[j][1] = "word"}}

\* plainto_tsquery('english', " | ".join(queries)): the punctuation is
\* dropped and the words of all queries are AND-ed.
plainto_tsquery(queries) == {queries[i] : i \in DOMAIN queries}

\* context LIKE '%[SUPPRESSED-%'
like_suppressed(context) ==
    \E i \in DOMAIN context : context[i][1] = "[SUPPRESSED-BY-"

\* context LIKE '%' || task_size || '%'
like_task_size(context, task_size) ==
    \E i \in DOMAIN context : context[i] = Word(task_size)

\* LIMIT n of a result set.
Limit(R, n) ==
    IF Cardinality(R) <= n THEN R
    ELSE CHOOSE T \in SUBSET R : Cardinality(T) = n

\* The knowledge query: the ids of the rows it returns.
search_by_queries(queries, scope_ids, task_size) ==
    Limit({k.id : k \in {x \in knowledge :
              /\ x.scope_id \in scope_ids
              /\ plainto_tsquery(queries) # {}
              /\ plainto_tsquery(queries) \subseteq to_tsvector(x)
              /\ ~like_suppressed(x.context)
              /\ task_size = None \/ like_task_size(x.context, The(task_size))}},
          SEARCH_LIMIT)

\* Every scope id instead of the ids of the hierarchy.
all_scope_ids(c) == ScopeIds

\* The scope ids the knowledge query of core/knowledge_ops.py is given.
core_scope_ids(c) == {row[1] : row \in hierarchy_result(c)}

\* The scope ids the knowledge query of services/knowledge.py is given.
service_scope_ids(c) == {get_by_name(c)}

\* A search reads the tables and writes nothing.

\* core/knowledge_ops.py
core_get_task_context_knowledge(queries, c, task_size) ==
    /\ last' = IF hierarchy_result(c) = {}
               THEN SearchResult("core_get_task_context_knowledge",
                                 "ScopeNotFound", c, queries, task_size, {})
               ELSE SearchResult("core_get_task_context_knowledge", "ok", c,
                        queries, task_size,
                        search_by_queries(queries, core_scope_ids(c), task_size))
    /\ UNCHANGED <<namespaces, scopes, scope_parents, knowledge,
                   nextNamespaceId, nextScopeId, nextKnowledgeId,
                   config, knowledge_conflicts, calls>>

\* services/knowledge.py
get_task_context_knowledge(queries, c, task_size) ==
    /\ last' = IF get_by_name(c) = 0
               THEN SearchResult("get_task_context_knowledge",
                                 "ScopeNotFound", c, queries, task_size, {})
               ELSE SearchResult("get_task_context_knowledge", "ok", c,
                        queries, task_size,
                        search_by_queries(queries, service_scope_ids(c), task_size))
    /\ UNCHANGED <<namespaces, scopes, scope_parents, knowledge,
                   nextNamespaceId, nextScopeId, nextKnowledgeId,
                   config, knowledge_conflicts, calls>>

(***************************************************************************)
(* server: the config table.  update_config and reset_config are the only  *)
(* writers of config.value.                                                *)
(***************************************************************************)
\* The value_type column of a config row.
DbValueType(key) == "integer"

ConfigResult(op, res, key, old_value, new_value) ==
    [op |-> op, result |-> res, key |-> key, old_value |-> old_value,
     new_value |-> new_value]

\* int(value) raises ValueError unless the text is an integer literal.
int_raises(value) == value[1] # "int"

update_config(key, value) ==
    /\ IF key = ""
       THEN /\ last' = ConfigResult("update_config", "InvalidInput", key, None, None)
            /\ UNCHANGED config
       ELSE IF key \notin DOMAIN config
       THEN /\ last' = ConfigResult("update_config", "ConfigNotFound", key, None, None)
            /\ UNCHANGED config
       ELSE IF DbValueType(key) = "integer" /\ int_raises(value)
       THEN /\ last' = ConfigResult("update_config", "InvalidValue", key, None, None)
            /\ UNCHANGED config
       ELSE /\ config' = [config EXCEPT ![key] = value]
            /\ last' = ConfigResult("update_config", "ok", key,
                                    Some(config[key]), Some(value))
    /\ UNCHANGED <<namespaces, scopes, scope_parents, knowledge,
                   nextNamespaceId, nextScopeId, nextKnowledgeId,
                   knowledge_conflicts, calls>>

reset_config(key) ==
    /\ IF key = ""
       THEN /\ last' = ConfigResult("reset_config", "InvalidInput", key, None, None)
            /\ UNCHANGED config
       ELSE IF key \notin DOMAIN config
       THEN /\ last' = ConfigResult("reset_config", "ConfigNotFound", key, None, None)
            /\ UNCHANGED config
       ELSE /\ config' = [config EXCEPT ![key] = DbConfigDefault(key)]
            /\ last' = ConfigResult("reset_config", "ok", key,
                                    Some(config[key]), Some(DbConfigDefault(key)))
    /\ UNCHANGED <<namespaces, scopes, scope_parents, knowledge,
                   nextNamespaceId, nextScopeId, nextKnowledgeId,
                   knowledge_conflicts, calls>>

\* The position of a task size in the declared order XS, S, M, L, XL.
SizeRank(size) ==
    CASE size = "XS" -> 1 [] size = "S" -> 2 [] size = "M" -> 3
      [] size = "L" -> 4 [] size = "XL" -> 5

\* The sizes, contexts and keys the handlers are called with below.
SizeInputs == {"XS", "M", "L"}

SizedContexts == {<<Word("c1")>>, <<Word("c1"), Word("M")>>}

KeyInputs == ConfigKeys \cup {"", "nokey"}

\* Entries written through the server, searched through the mcp-server,
\* while the configured maximum result count is changed.
NextSearchConfig ==
    \/ \E ctx \in SizedContexts, ts \in Optional(SizeInputs) :
          write_knowledge(<<GLOBAL_NAMESPACE, DEFAULT_SCOPE_NAME>>, "w1", ctx, ts)
    \/ \E f \in Optional(SizeInputs) :
          core_get_task_context_knowledge(<<"w1">>,
              <<GLOBAL_NAMESPACE, DEFAULT_SCOPE_NAME>>, f)
    \/ \E f \in Optional(SizeInputs) :
          get_task_context_knowledge(<<"w1">>,
              <<GLOBAL_NAMESPACE, DEFAULT_SCOPE_NAME>>, f)
    \/ \E key \in KeyInputs, value \in ConfigValues : update_config(key, value)
    \/ \E key \in KeyInputs : reset_config(key)

SpecSearchConfig == Init /\ [][NextSearchConfig]_vars

\* Two update_scope calls in flight at once, next to the server's
\* add_scope_parents, on the scopes global:a and global:b.
ConcurrentScopes == {<<GLOBAL_NAMESPACE, "a">>, <<GLOBAL_NAMESPACE, "b">>}

ConcurrentParents == {<<>>} \cup {<<c>> : c \in ConcurrentScopes}

NextConcurrent ==
    \/ \E c \in ConcurrentScopes : mcp_create_scope(c, "d1", <<>>)
    \/ \E p \in Procs, c \in ConcurrentScopes, ps \in ConcurrentParents :
          update_scope_begin(p, c, ps)
    \/ \E p \in Procs : update_scope_clear(p)
    \/ \E p \in Procs : update_scope_insert(p)
    \/ \E c \in ConcurrentScopes, ps \in ConcurrentParents \ {<<>>} :
          add_scope_parents(c, ps)

SpecConcurrent == Init /\ [][NextConcurrent]_vars

\* The handlers that change a description, on scopes with parents and
\* knowledge.
NextDescribe ==
    \/ \E name \in NamespaceNames : mcp_create_namespace(name, "d1")
    \/ \E ns \in NamespaceNames,
            ps \in {<<>>, <<<<"n1", DEFAULT_SCOPE_NAME>>>>} :
          create_scope(<<ns, "a">>, "d1", ps)
    \/ \E ns \in NamespaceNames :
          write_knowledge(<<ns, DEFAULT_SCOPE_NAME>>, "w1", <<Word("c1")>>, None)
    \/ \E c \in CanonicalNames : update_scope_description(c, "d2")
    \/ \E c \in CanonicalNames : update_scope(c, None, Some("d2"), None)

SpecDescribe == Init /\ [][NextDescribe]_vars

\* The server's conflict resolution over the entries of global:default.
NextResolve ==
    \/ write_knowledge(<<GLOBAL_NAMESPACE, DEFAULT_SCOPE_NAME>>, "w1",
                       <<Word("c1")>>, None)
    \/ \E id \in KnowledgeIds, ids \in IdLists :
          resolve_knowledge_conflict(id, ids)

SpecResolve == Init /\ [][NextResolve]_vars

\* The three create_scope handlers.
NextAtomic ==
    \/ \E name \in NamespaceNames : mcp_create_namespace(name, "d1")
    \/ \E c \in CanonicalNames, ps \in ParentLists : create_scope(c, "d1", ps)
    \/ \E c \in CanonicalNames, ps \in AnyLists : mcp_create_scope(c, "d1", ps)
    \/ \E c \in CanonicalNames, ps \in AnyLists : core_create_scope(c, "d1", ps)

SpecAtomic == Init /\ [][NextAtomic]_vars

\* The handlers that create and delete scopes and their knowledge.
NextDelete ==
    \/ \E name \in NamespaceNames : create_namespace(name, "d1")
    \/ \E c \in CanonicalNames, ps \in ParentLists : create_scope(c, "d1", ps)
    \/ \E c \in CanonicalNames : write_knowledge(c, "w1", <<Word("c1")>>, None)
    \/ \E c \in CanonicalNames : delete_scope(c)
    \/ \E c \in CanonicalNames : mcp_delete_scope(c)

SpecDelete == Init /\ [][NextDelete]_vars

\* The handlers of the mcp-server.
NextMcp ==
    \/ \E name \in NamespaceNames : mcp_create_namespace(name, "d1")
    \/ \E c \in CanonicalNames, ps \in AnyLists : mcp_create_scope(c, "d1", ps)
    \/ \E c \in CanonicalNames, n \in CanonicalNames :
            update_scope(c, Some(n), None, None)
    \/ \E c \in CanonicalNames, ps \in AnyLists :
            update_scope(c, None, None, Some(ps))
    \/ \E ps \in Optional(AnyLists) :
            update_scope(<<"global", "a">>, None, Some("d2"), ps)
    \/ \E c \in CanonicalNames : mcp_delete_scope(c)

SpecMcp == Init /\ [][NextMcp]_vars

\* Scopes of the namespace global (with parents in any namespace) and
\* knowledge entries created through the mcp-server, and the two searches
\* over them.
GlobalNames == {c \in CanonicalNames : c[1] = GLOBAL_NAMESPACE}

\* Deleting a scope that has a child: global:b is created as a child of
\* global:a, and both hold knowledge.
NextOrphan ==
    \/ create_scope(<<GLOBAL_NAMESPACE, "a">>, "d1", <<>>)
    \/ create_scope(<<GLOBAL_NAMESPACE, "b">>, "d1", <<<<GLOBAL_NAMESPACE, "a">>>>)
    \/ \E c \in GlobalNames : write_knowledge(c, "w1", <<Word("c1")>>, None)
    \/ \E c \in GlobalNames : delete_scope(c)
    \/ \E c \in GlobalNames : mcp_delete_scope(c)

SpecOrphan == Init /\ [][NextOrphan]_vars

NextSearch ==
    \/ \E name \in NamespaceNames : mcp_create_namespace(name, "d1")
    \/ \E c \in GlobalNames, ps \in ParentLists : mcp_create_scope(c, "d1", ps)
    \/ \E c \in CanonicalNames : create_knowledge_entry(c, "w1", <<Word("c1")>>)
    \/ \E id \in KnowledgeIds, sc \in CanonicalNames :
            update_knowledge_entry(id, None, None, Some(sc))
    \/ \E c \in CanonicalNames :
            core_get_task_context_knowledge(<<"w1">>, c, None)
    \/ \E c \in CanonicalNames :
            get_task_context_knowledge(<<"w1">>, c, None)

SpecSearch == Init /\ [][NextSearch]_vars

\* Knowledge entries of the scope global:default, their suppression and
\* their update, and the search over them.
NextSuppress ==
    \/ \E c \in CanonicalNames, w \in ContentWords :
            create_knowledge_entry(c, w, <<Word("c1")>>)
    \/ \E id \in KnowledgeIds, w \in Optional({"w2"}),
          ctx \in Optional({<<Word("c2")>>}) :
            update_knowledge_entry(id, w, ctx, None)
    \/ \E a \in KnowledgeIds, ids \in IdLists : resolve_knowledge_conflicts(a, ids)
    \/ \E q \in QueryLists, c \in CanonicalNames :
            core_get_task_context_knowledge(q, c, None)

SpecSuppress == Init /\ [][NextSuppress]_vars

\* The handlers of both servers that create scopes, and the deletion of
\* scopes.
NextCreate ==
    \/ \E name \in NamespaceNames : mcp_create_namespace(name, "d1")
    \/ \E c \in CanonicalNames, ps \in AnyLists : mcp_create_scope(c, "d1", ps)
    \/ \E c \in CanonicalNames, ps \in ParentLists : create_scope(c, "d1", ps)
    \/ \E c \in CanonicalNames : mcp_delete_scope(c)

SpecCreate == Init /\ [][NextCreate]_vars

(***************************************************************************)
(* Properties of the scope graph.                                          *)
(***************************************************************************)
\* The default scopes of namespace row n.
DefaultScopes(n) ==
    {s \in scopes : s.namespace_id = n.id /\ s.name = DEFAULT_SCOPE_NAME}

\* C1: after any sequence of add_scope_parents / remove_scope_parents calls
\* (and of the other handlers) the parent-edge graph has no directed cycle.
C1_NoDirectedCycle == Acyclic(scope_parents)

\* A successful add_scope_parents has built a chain of two parent edges.
C1_Witness ==
    /\ last.op = "add_scope_parents" /\ last.result = "ok"
    /\ \E e \in scope_parents, f \in scope_parents : e[2] = f[1]

\* C2: the ancestors of every non-default scope include the default scope
\* of its own namespace, whatever handlers have run.
C2_DefaultIsAncestor ==
    \A s \in scopes :
        s.name # DEFAULT_SCOPE_NAME =>
            DefaultScopeOf(s.id, scopes) \in Ancestors(s.id, scope_parents)

C4_BatchAtomic ==
    [][(last'.op \in {"add_scope_parents", "remove_scope_parents"}
            /\ last'.result # "ok")
        => scope_parents' = scope_parents]_vars

\* A batch was rejected for a scope that has two or more parents.
C4_Witness ==
    /\ last.op \in {"add_scope_parents", "remove_scope_parents"}
    /\ last.result \in {"ParentNotFound", "CircularReference", "SelfReference"}
    /\ \E s \in scopes : Cardinality(Parents(s.id, scope_parents)) >= 2

\* C5: an update_scope call with a new parent list that fails with
\* CircularReference or with a missing parent leaves the scope's name,
\* description and parent set as they were.
C5_FailedUpdateChangesNothing ==
    [][(last'.op = "update_scope"
            /\ last'.result \in {"CircularReference", "ParentNotFound"})
        => (scopes' = scopes /\ scope_parents' = scope_parents)]_vars

\* C10: delete_scope called on the default scope of a namespace fails, and
\* leaves the scope, the parent edges and the knowledge as they were.
C10_DefaultScopeNotDeleted ==
    [][(last'.op = "delete_scope" /\ last'.scope[2] = DEFAULT_SCOPE_NAME)
        => (/\ last'.result # "ok"
            /\ scopes' = scopes
            /\ scope_parents' = scope_parents
            /\ knowledge' = knowledge)]_vars

\* delete_scope was rejected for a default scope that holds knowledge and
\* is the parent of another scope.
C10_Witness ==
    /\ last.op = "delete_scope"
    /\ last.scope[2] = DEFAULT_SCOPE_NAME
    /\ last.result = "DefaultScopeProtected"
    /\ \E k \in knowledge : k.scope_id = ScopeIdIn(last.scope, scopes)
    /\ \E e \in scope_parents : e[2] = ScopeIdIn(last.scope, scopes)

\* The scopes addressed by the canonical name c.
Addressed(c) ==
    {s \in scopes : s.name = c[2] /\
        \E n \in namespaces : n.id = s.namespace_id /\ n.name = c[1]}

\* C11: delete_scope on an existing non-default scope succeeds, removes the
\* scope and exactly the knowledge entries bound to it, and returns their
\* number as knowledge_deleted.
C11_DeleteRemovesExactlyBoundKnowledge ==
    [][(last'.op = "delete_scope" /\ last'.scope[2] # DEFAULT_SCOPE_NAME
            /\ Addressed(last'.scope) # {})
        => LET gone == {s.id : s \in Addressed(last'.scope)}
           IN  /\ last'.result = "ok"
               /\ {s.id : s \in scopes'} = {s.id : s \in scopes} \ gone
               /\ knowledge' = {k \in knowledge : k.scope_id \notin gone}
               /\ last'.knowledge_deleted =
                     Cardinality({k \in knowledge : k.scope_id \in gone})]_vars

\* A delete_scope has removed a scope with knowledge bound to it while an
\* entry bound to another scope stays.
C11_Witness ==
    /\ last.op = "delete_scope" /\ last.result = "ok"
    /\ last.knowledge_deleted >= 1
    /\ knowledge # {}

\* C12: a successful create_scope of scope c with the parent list ps gives
\* the new scope exactly the listed parents and the default scope of its
\* namespace as parent set.
C12_CreatedParentsAreListedPlusDefault ==
    [][(last'.op = "create_scope" /\ last'.result = "ok") =>
        \A c \in CanonicalNames :
          (ScopeIdIn(c, scopes) = 0 /\ ScopeIdIn(c, scopes') # 0) =>
            \A ps \in AnyLists :
              (create_scope(c, "d1", ps) \/ mcp_create_scope(c, "d1", ps))
              => Parents(ScopeIdIn(c, scopes'), scope_parents') =
                    {ScopeIdIn(q, scopes) : q \in Range(ps)}
                        \cup {ScopeIdIn(<<c[1], DEFAULT_SCOPE_NAME>>, scopes)}]_vars

\* A scope was created with a parent in another namespace next to the
\* default scope of its own.
C12_Witness ==
    /\ last.op = "create_scope" /\ last.result = "ok"
    /\ \E s \in scopes :
         /\ s.id = nextScopeId - 1
         /\ Cardinality(Parents(s.id, scope_parents)) >= 2
         /\ \E t \in scopes : /\ t.id \in Parents(s.id, scope_parents)
                               /\ t.namespace_id # s.namespace_id

(***************************************************************************)
(* Properties of the search.                                               *)
(***************************************************************************)
\* The start scope and its transitive ancestors.
Closure(id) == {id} \cup Ancestors(id, scope_parents)

ExistingNames == {c \in CanonicalNames : get_by_name(c) # 0}

core_search(q, c) == search_by_queries(q, core_scope_ids(c), None)
service_search(q, c) == search_by_queries(q, service_scope_ids(c), None)

\* The entry matches the query: it holds every word of the query.
Matches(q, k) ==
    plainto_tsquery(q) # {} /\ plainto_tsquery(q) \subseteq to_tsvector(k)

\* C6: whatever start scope and queries, and after any create, update and
\* resolve calls, the search returns no entry that a resolve call has
\* suppressed.
C6_NoSuppressedEntryReturned ==
    /\ \A c \in ExistingNames, q \in QueryLists :
          \A k \in knowledge :
              k.id \in core_search(q, c) => k.suppressed_by = 0
    /\ last.op = "core_get_task_context_knowledge" =>
          \A k \in knowledge : k.id \in last.ids => k.suppressed_by = 0

\* C7: a search started at scope S returns every matching entry that is not
\* suppressed and is bound to S or to a transitive ancestor of S.
C7_InheritedKnowledgeSurfaces ==
    /\ \A c \in ExistingNames, q \in QueryLists :
          \A k \in knowledge :
              (/\ k.scope_id \in Closure(get_by_name(c))
               /\ Matches(q, k)
               /\ k.suppressed_by = 0)
              => k.id \in service_search(q, c)
    /\ (last.op = "get_task_context_knowledge" /\ last.result = "ok") =>
          \A k \in knowledge :
              (/\ k.scope_id \in Closure(get_by_name(last.scope))
               /\ Matches(last.queries, k)
               /\ k.suppressed_by = 0)
              => k.id \in last.ids

\* C8: a search started at scope S returns no entry bound to a scope that
\* is neither S nor a transitive ancestor of S.
C8_NothingOutsideClosure ==
    /\ \A c \in ExistingNames, q \in QueryLists :
          \A k \in knowledge :
              k.id \in core_search(q, c) => k.scope_id \in Closure(get_by_name(c))
    /\ (last.op = "core_get_task_context_knowledge" /\ last.result = "ok") =>
          \A k \in knowledge :
              k.id \in last.ids => k.scope_id \in Closure(get_by_name(last.scope))

\* A search has returned an entry bound to an ancestor of its start scope
\* while a matching entry is bound to a scope outside the closure.
C8_Witness ==
    /\ last.op = "core_get_task_context_knowledge"
    /\ last.result = "ok"
    /\ \E k1 \in knowledge, k2 \in knowledge :
         /\ k1.id \in last.ids
         /\ k1.scope_id # get_by_name(last.scope)
         /\ Matches(last.queries, k2)
         /\ k2.scope_id \notin Closure(get_by_name(last.scope))

\* The entries a search from scope c with queries q returns.
Visible(K, q, c) ==
    {k.id : k \in {x \in K :
        /\ x.scope_id \in core_scope_ids(c)
        /\ plainto_tsquery(q) \subseteq to_tsvector(x)
        /\ ~like_suppressed(x.context)}}

\* C13: a resolve call that directly repeats a successful resolve call with
\* the same arguments leaves every knowledge entry, and so what a search
\* returns, as the first call left it.
C13_ResolveIdempotent ==
    [][(/\ last.op = "resolve_knowledge_conflicts" /\ last.result = "ok"
        /\ last'.op = "resolve_knowledge_conflicts" /\ last'.result = "ok"
        /\ last'.active_id = last.active_id
        /\ last'.suppressed_ids = last.suppressed_ids)
       => (/\ knowledge' = knowledge
           /\ \A c \in ExistingNames, q \in QueryLists :
                 Visible(knowledge', q, c) = Visible(knowledge, q, c))]_vars

\* The ids among the arguments of a resolve call that name no entry of K.
MissingIds(active_id, suppressed_ids, K) ==
    {i \in {active_id} \cup Range(suppressed_ids) :
        \A k \in K : k.id # i}

\* C14: a resolve call with one or more ids that do not exist fails with
\* one error that names every missing id, and changes no entry.
C14_ResolveNamesEveryMissingId ==
    [][(/\ last'.op = "resolve_knowledge_conflicts"
        /\ MissingIds(last'.active_id, last'.suppressed_ids, knowledge) # {})
       => (/\ last'.result = "KnowledgeNotFound"
           /\ last'.missing =
                 MissingIds(last'.active_id, last'.suppressed_ids, knowledge)
           /\ knowledge' = knowledge)]_vars

\* The least number of parent edges from scope id to scope x.
RECURSIVE Distance(_, _, _)
Distance(frontier, x, n) ==
    IF x \in frontier THEN n
    ELSE Distance(UNION {Parents(f, scope_parents) : f \in frontier}, x, n + 1)

\* C9: the hierarchy of a start scope holds each scope reachable from it
\* exactly once, at the least number of parent edges from the start, also
\* when the scope is reachable by paths of different lengths.
C9_EachScopeOnceAtMinimumLevel ==
    \A c \in ExistingNames :
        LET id == get_by_name(c)
            rows == hierarchy_result(c)
        IN  /\ {row[1] : row \in rows} = Closure(id)
            /\ \A row \in rows : row[2] = Distance({id}, row[1], 0)

\* The operations on a namespace that rename, describe or delete it.
NamespaceMutations ==
    {"rename_namespace", "update_namespace_description", "update_namespace",
     "delete_namespace"}

\* C15: a rename, a description update or a delete of the namespace global
\* always fails as Reserved, and leaves the namespaces, the scopes, their
\* edges and the knowledge as they were.
C15_GlobalNamespaceIsImmutable ==
    [][(last'.op \in NamespaceMutations /\ last'.namespace = GLOBAL_NAMESPACE)
        => /\ last'.result = "Reserved"
           /\ namespaces' = namespaces
           /\ scopes' = scopes
           /\ scope_parents' = scope_parents
           /\ knowledge' = knowledge]_vars

\* A delete of global was refused while global owned a scope with knowledge.
C15_Witness ==
    /\ last.op = "delete_namespace"
    /\ last.namespace = GLOBAL_NAMESPACE
    /\ last.result = "Reserved"
    /\ \E k \in knowledge : \E s \in OwnedScopes(GLOBAL_NAMESPACE) : k.scope_id = s.id

\* C16: a successful delete of namespace N removes N, exactly the scopes N
\* owned and exactly the knowledge bound to them: nothing of N is left, and
\* the scopes and the knowledge of every other namespace are unchanged.
C16_NamespaceDeleteCascades ==
    [][(last'.op = "delete_namespace" /\ last'.result = "ok")
        => LET owned == OwnedScopes(last'.namespace)
               gone == {s.id : s \in owned}
           IN  /\ owned # {}
               /\ \A n \in namespaces' : n.name # last'.namespace
               /\ scopes' = scopes \ owned
               /\ knowledge' = {k \in knowledge : k.scope_id \notin gone}
               /\ \A k \in knowledge' : \E s \in scopes' : s.id = k.scope_id
               /\ \A s \in scopes' : \E n \in namespaces' : n.id = s.namespace_id]_vars

\* A namespace with knowledge was deleted and the knowledge of another
\* namespace is still there.
C16_Witness ==
    /\ last.op = "delete_namespace"
    /\ last.result = "ok"
    /\ last.deleted_knowledge >= 1
    /\ knowledge # {}
    /\ Cardinality(scopes) >= 2

\* C17: a successful delete of a namespace reports as scopes deleted the
\* number of scopes the namespace owned (at least its default scope) and as
\* knowledge deleted the number of entries bound to those scopes just before.
C17_NamespaceDeleteReportsCounts ==
    [][(last'.op = "delete_namespace" /\ last'.result = "ok")
        => LET owned == OwnedScopes(last'.namespace)
               gone == {s.id : s \in owned}
           IN  /\ last'.deleted_scopes = Cardinality(owned)
               /\ last'.deleted_scopes >= 1
               /\ last'.deleted_knowledge =
                     Cardinality({k \in knowledge : k.scope_id \in gone})]_vars

\* C18: after a successful rename of namespace old to new, the scopes, the
\* parent edges and the knowledge are what they were, every scope old owned
\* is found under new:<scope> with its id, and no name old:<scope> is found.
C18_NamespaceRenameKeepsScopes ==
    [][(last'.op \in {"rename_namespace", "update_namespace"} /\ last'.result = "ok"
            /\ last'.new_namespace # None)
        => \A old \in NewNamespaceNames, new \in NewNamespaceNames :
             (last'.namespace = old /\ last'.new_namespace = Some(new))
             => /\ scopes' = scopes
                /\ scope_parents' = scope_parents
                /\ knowledge' = knowledge
                /\ \A s \in OwnedScopes(old) : get_by_name(<<new, s.name>>)' = s.id
                /\ \A nm \in ScopeNames : get_by_name(<<old, nm>>)' = 0]_vars

\* The ids the names of a parent list resolve to (0 for a name not found).
ListedIds(ps) == {get_by_name(q) : q \in Range(ps)}

\* The edge set after the call add_scope_parents(c, ps) made in a state
\* whose edge set is E.
AddThen(c, ps, E) ==
    sql_add_scope_parents(get_by_name(c), ps, scopes, E)

\* C19: add_scope_parents is idempotent.  In every reachable state, a call
\* whose listed parents are all parents of the scope already succeeds and
\* leaves every edge as it was; and after a call that succeeds every listed
\* parent is a parent and the same call made once more succeeds and yields
\* the same edges.
C19_AddParentsIdempotent ==
    \A c \in CanonicalNames :
      (get_by_name(c) # 0)
      => \A ps \in ParentLists \ {<<>>} :
           LET once == add_scope_parents_call(c, ps)
               present == 0 \notin ListedIds(ps) /\
                   ListedIds(ps) \subseteq Parents(get_by_name(c), scope_parents)
           IN  /\ present => (once.result = "ok" /\ once.edges = scope_parents)
               /\ (once.result = "ok")
                  => /\ ListedIds(ps) \subseteq Parents(get_by_name(c), once.edges)
                     /\ AddThen(c, ps, once.edges).result = "ok"
                     /\ AddThen(c, ps, once.edges).edges = once.edges

\* add_scope_parents succeeded on a scope that has a parent besides its
\* namespace default: the state in which the same call is a repetition.
C19_Witness ==
    /\ last.op = "add_scope_parents"
    /\ last.result = "ok"
    /\ \E s \in scopes : Cardinality(Parents(s.id, scope_parents)) >= 2

\* C20: in every reachable state, a remove_scope_parents call on an existing
\* scope that lists a parent which is not a parent edge of the scope, be it
\* the name of an existing scope or of none, fails with ParentNotFound and
\* removes no edge.
C20_RemoveParentsRejectsNonEdge ==
    \A c \in CanonicalNames :
      (get_by_name(c) # 0)
      => \A ps \in ParentLists \ {<<>>} :
           (\E q \in Range(ps) : <<get_by_name(c), get_by_name(q)>> \notin scope_parents)
           => /\ remove_scope_parents_call(c, ps).result = "ParentNotFound"
              /\ remove_scope_parents_call(c, ps).edges = scope_parents

\* remove_scope_parents failed with ParentNotFound, edges exist, and some
\* scope with a parent has another existing scope that is no parent of it.
C20_Witness ==
    /\ last.op = "remove_scope_parents"
    /\ last.result = "ParentNotFound"
    /\ \E s \in scopes :
         /\ Parents(s.id, scope_parents) # {}
         /\ \E t \in scopes : t.id # s.id /\ <<s.id, t.id>> \notin scope_parents

\* C21: a rename of the default scope of an existing namespace, through
\* rename_scope or through update_scope with a new name, always fails with
\* DefaultScopeProtected and leaves every scope row, the name of the default
\* scope included, as it was.
C21_DefaultScopeNotRenamed ==
    [][(last'.op \in {"rename_scope", "update_scope"})
        => \A ns \in NamespaceNames :
             (get_by_name(<<ns, DEFAULT_SCOPE_NAME>>) # 0)
             => \A n \in ScopeNames, d \in Optional({"d2"}) :
                  (\/ rename_scope(<<ns, DEFAULT_SCOPE_NAME>>, n)
                   \/ update_scope(<<ns, DEFAULT_SCOPE_NAME>>, Some(<<ns, n>>), d, None))
                  => (last'.result = "DefaultScopeProtected" /\ scopes' = scopes)]_vars

\* update_scope has just refused to rename a default scope while a second
\* namespace with its own default scope exists.
C21_Witness ==
    /\ last.op = "update_scope"
    /\ last.result = "DefaultScopeProtected"
    /\ get_by_name(<<"n1", DEFAULT_SCOPE_NAME>>) # 0

\* C22: a successful update of a knowledge entry leaves every field that
\* the call does not supply as it was, leaves the entry suppressed if and
\* only if it was suppressed, and leaves every other entry alone.
C22_UpdateChangesOnlySuppliedFields ==
    [][(last'.op = "update_knowledge_entry" /\ last'.result = "ok")
        => \A id \in KnowledgeIds :
             (KnowledgeRowsOf(id) # {})
             => \A w \in Optional(ContentWords),
                   ctx \in Optional({<<Word("c2")>>}),
                   sc \in Optional(CanonicalNames) :
                  update_knowledge_entry(id, w, ctx, sc)
                  => LET k == CHOOSE x \in knowledge : x.id = id
                         k2 == CHOOSE x \in knowledge' : x.id = id
                     IN  /\ knowledge' \ {k2} = knowledge \ {k}
                         /\ w = None => k2.content = k.content
                         /\ ctx = None => k2.context = k.context
                         /\ sc = None => k2.scope_id = k.scope_id
                         /\ k2.task_size = k.task_size
                         /\ k2.suppressed_by = k.suppressed_by
                         /\ like_suppressed(k2.context) = like_suppressed(k.context)]_vars


C24_ResultCountWithinConfiguredMax ==
    (last.op \in {"core_get_task_context_knowledge", "get_task_context_knowledge"}
     /\ last.result = "ok")
    => Cardinality(last.ids) <= config[SEARCH_MAX_RESULTS][2]


\* C25: a create_scope call either succeeds, and then the scope exists with
\* an edge to every requested parent and to its namespace's default scope,
\* or fails, and then it has added no scope row and no edge.
C25_CreateScopeAtomic ==
    [][(last'.op = "create_scope")
        => \A c \in CanonicalNames, ps \in AnyLists :
             (\/ create_scope(c, "d1", ps)
              \/ mcp_create_scope(c, "d1", ps)
              \/ core_create_scope(c, "d1", ps))
             => IF last'.result = "ok"
                THEN /\ ScopeIdIn(c, scopes') # 0
                     /\ \A q \in Range(ps) \cup {<<c[1], DEFAULT_SCOPE_NAME>>} :
                          <<ScopeIdIn(c, scopes'), ScopeIdIn(q, scopes')>>
                              \in scope_parents'
                ELSE scopes' = scopes /\ scope_parents' = scope_parents]_vars


C27_SuppressionLastWriterWins ==
    [][(/\ last.op = "resolve_knowledge_conflicts" /\ last.result = "ok"
        /\ last'.op = "resolve_knowledge_conflicts" /\ last'.result = "ok"
        /\ last'.active_id # last.active_id)
       => \A s \in Range(last.suppressed_ids) \cap Range(last'.suppressed_ids) :
            \A k \in {x \in knowledge' : x.id = s} :
              /\ k.suppressed_by = last'.active_id
              /\ \A i \in DOMAIN k.context :
                    k.context[i][1] = "[SUPPRESSED-BY-"
                    => k.context[i] = Marker(last'.active_id)
              /\ \A c \in ExistingNames, q \in QueryLists :
                    s \notin Visible(knowledge', q, c)]_vars


\* The scope rows after the description of scope c has become d.
Described(c, d) ==
    {IF x.id = get_by_name(c) THEN [x EXCEPT !.description = d] ELSE x :
        x \in scopes}

\* C28: a description-only update of an existing scope, the default scope
\* of a namespace included, succeeds and changes the description of that
\* scope and nothing else: no name, namespace, parent edge or knowledge
\* entry.
C28_DescriptionOnlyUpdateSucceeds ==
    [][(last'.op \in {"update_scope_description", "update_scope"})
        => \A c \in CanonicalNames :
             (/\ get_by_name(c) # 0
              /\ \/ update_scope_description(c, "d2")
                 \/ update_scope(c, None, Some("d2"), None))
             => /\ last'.result = "ok"
                /\ scopes' = Described(c, "d2")
                /\ UNCHANGED <<namespaces, scope_parents, knowledge>>]_vars

\* C28, amended: the same for every existing scope other than
\* global:default, the default scopes of the other namespaces included.
\* On global:default the mcp-server's update_scope does the same, and the
\* server's update_scope_description is refused as Reserved and changes
\* nothing.
C28_DescriptionOnlyUpdateExceptGlobalDefault ==
    [][(last'.op \in {"update_scope_description", "update_scope"})
        => \A c \in CanonicalNames :
             (get_by_name(c) # 0)
             => /\ (\/ update_scope(c, None, Some("d2"), None)
                    \/ /\ update_scope_description(c, "d2")
                       /\ c # <<GLOBAL_NAMESPACE, DEFAULT_SCOPE_NAME>>)
                   => /\ last'.result = "ok"
                      /\ scopes' = Described(c, "d2")
                      /\ UNCHANGED <<namespaces, scope_parents, knowledge>>
                /\ (/\ update_scope_description(c, "d2")
                    /\ c = <<GLOBAL_NAMESPACE, DEFAULT_SCOPE_NAME>>)
                   => /\ last'.result = "Reserved"
                      /\ UNCHANGED <<namespaces, scopes, scope_parents, knowledge>>]_vars

\* The default scope of namespace n1 has just been given a new description
\* by the server, while parent edges and knowledge exist.
C28_Witness ==
    /\ last.op = "update_scope_description" /\ last.result = "ok"
    /\ last.scope = <<"n1", DEFAULT_SCOPE_NAME>>
    /\ \E x \in scopes : x.id = get_by_name(last.scope) /\ x.description = "d2"
    /\ scope_parents # {}
    /\ knowledge # {}


\* C29: a successful delete_scope of scope P removes the row of P, the
\* parent edges that start or end at P and the knowledge bound to P, and
\* nothing else: every other scope, every other edge (so each child of P
\* keeps its edges to its other parents) and every other knowledge entry
\* stays as it was, and no edge is added.
C29_DeleteRemovesOnlyTheScope ==
    [][(last'.op = "delete_scope" /\ last'.result = "ok")
        => LET gone == {s.id : s \in Addressed(last'.scope)}
           IN  /\ scopes' = {s \in scopes : s.id \notin gone}
               /\ scope_parents' =
                     {e \in scope_parents : e[1] \notin gone /\ e[2] \notin gone}
               /\ knowledge' = {k \in knowledge : k.scope_id \notin gone}
               /\ namespaces' = namespaces]_vars

\* global:a has been deleted; its child global:b is still there with its
\* edge to global:default and with its knowledge.
C29_Witness ==
    /\ last.op = "delete_scope" /\ last.result = "ok"
    /\ last.scope = <<GLOBAL_NAMESPACE, "a">>
    /\ LET b == get_by_name(<<GLOBAL_NAMESPACE, "b">>)
       IN  /\ b # 0
           /\ Parents(b, scope_parents) =
                 {get_by_name(<<GLOBAL_NAMESPACE, DEFAULT_SCOPE_NAME>>)}
           /\ \E k \in knowledge : k.scope_id = b


\* C30: resolve_knowledge_conflict fails as "entries not found" only when
\* one of the ids it was given names no knowledge entry, and the set of
\* missing ids it reports is then not empty; a call whose ids all exist,
\* with an id repeated in the suppressed list, is not rejected that way.
C30_NotFoundOnlyWhenAnIdIsMissing ==
    (last.op = "resolve_knowledge_conflict" /\ last.result = "KnowledgeNotFound")
    => /\ last.missing # {}
       /\ \E id \in {last.active_id} \cup Range(last.suppressed_ids) :
             KnowledgeRowsOf(id) = {}

====
